---- MODULE Spec2Model ----
(***************************************************************************)
(* Model of czsc.utils.timeout_decorator (src/czsc/utils/__init__.py,      *)
(* lines 229-262): a wrapper that runs func on a fresh threading.Thread,   *)
(* joins it with a timeout, and then returns None (after a warning) when   *)
(* the thread is still alive, re-raises the captured exception, or returns *)
(* the captured result.                                                    *)
(*                                                                         *)
(* Each invocation i of the wrapper has a caller position pc[i] and a      *)
(* worker (thread) position wpc[i].  Time is discrete: Tick advances the   *)
(* time every blocked join has waited.  How long func runs is up to func:  *)
(* a terminating func finishes at any moment, before or after any tick.    *)
(***************************************************************************)
EXTENDS Integers, Sequences, FiniteSets, TLC

\* ---------------------------------------------------------------- bounds
MaxD == 2            \* largest deadline, in ticks; deadlines range over -1..MaxD

\* Two invocations of the wrapper, which may run one after the other or
\* overlap in any way.
Invs == {1, 2}
Deadlines == (-1)..MaxD

\* ---------------------------------------------------------------- objects
\* Python objects that can sit in a cell: None, a value, or a raised failure.
\* truthy is the result of bool(obj), which `if exception[0]:` evaluates.
None == [type |-> "NoneType", id |-> 0, truthy |-> FALSE]

RetVals == { None, [type |-> "int", id |-> 42, truthy |-> TRUE] }

\* Failures func can raise: an ordinary Exception, an Exception whose class
\* defines __bool__/__len__ so that it is falsy, and a BaseException that is
\* not an Exception (SystemExit, KeyboardInterrupt, GeneratorExit).
Failures == { [type |-> "Exception", id |-> 1, truthy |-> TRUE],
              [type |-> "Exception", id |-> 2, truthy |-> FALSE],
              [type |-> "BaseException", id |-> 3, truthy |-> TRUE] }

\* The behaviours of func: return val, raise val, or never terminate.
Works == [kind : {"return"}, val : RetVals]
           \cup [kind : {"raise"}, val : Failures]
           \cup { [kind |-> "hang", val |-> None] }

VARIABLES pc, wpc, deadline, work, result, exception, waited,
          logs, outcome, handed, joinObs, aliveSeen, writers, access, escaped

vars == <<pc, wpc, deadline, work, result, exception, waited,
          logs, outcome, handed, joinObs, aliveSeen, writers, access, escaped>>

\* `except Exception as e` catches instances of Exception only.
Caught(e) == e.type = "Exception"

\* `if exception[0]:` tests the truth value of the cell's content.
Truthy(obj) == obj.truthy

\* Variant: the two lists are created once and shared by all calls.
CellOfShared(i) == 1

\* result and exception are lists created by each call of wrapper and closed
\* over by that call's target: invocation i uses the cells of invocation i.
CellOf(i) == i

\* Variant: abs(timeout) instead of max(timeout, 0).
JoinTimeoutAbs(d) == IF d < 0 THEN 0 - d ELSE d

\* Thread.join(timeout) waits at most max(timeout, 0).
JoinTimeout(d) == IF d > 0 THEN d ELSE 0

WaitExpired(i) == waited[i] >= JoinTimeout(deadline[i])

\* Variant: liveness is taken from the work having finished, not from the
\* thread having terminated.
IsAliveRunning(i) == wpc[i] = "running"

\* Thread.is_alive(): true from start() until the thread has terminated.
IsAlive(i) == wpc[i] \in {"running", "exiting"}

\* What has been done to the cells of one invocation: how often result[0]
\* and exception[0] were assigned and evaluated, and whether a cell was
\* evaluated while the thread that assigns it was still alive.
NoAccess == [resW |-> 0, excW |-> 0, resR |-> 0, excR |-> 0, early |-> FALSE]

\* Variant: result[0] is evaluated before the exception test.
ReadByEager(i, a) ==
    IF Truthy(exception[CellOf(i)])
      THEN [a EXCEPT !.excR = @ + 2, !.resR = @ + 1, !.early = @ \/ IsAlive(i)]
      ELSE [a EXCEPT !.excR = @ + 1, !.resR = @ + 1, !.early = @ \/ IsAlive(i)]

\* The evaluations of lines 255-258: `if exception[0]:` always, then either
\* `raise exception[0]` or `return result[0]`.
ReadBy(i, a) ==
    IF Truthy(exception[CellOf(i)])
      THEN [a EXCEPT !.excR = @ + 2, !.early = @ \/ IsAlive(i)]
      ELSE [a EXCEPT !.excR = @ + 1, !.resR = @ + 1, !.early = @ \/ IsAlive(i)]

Init ==
    /\ pc = [i \in Invs |-> "idle"]
    /\ wpc = [i \in Invs |-> "unstarted"]
    /\ deadline = [i \in Invs |-> 1]
    /\ work = [i \in Invs |-> [kind |-> "hang", val |-> None]]
    /\ result = [i \in Invs |-> None]
    /\ exception = [i \in Invs |-> None]
    /\ waited = [i \in Invs |-> 0]
    /\ logs = [i \in Invs |-> 0]
    /\ outcome = [i \in Invs |-> << >>]
    /\ handed = [i \in Invs |-> << >>]
    /\ joinObs = [i \in Invs |-> "none"]
    /\ aliveSeen = [i \in Invs |-> "none"]
    /\ writers = [i \in Invs |-> {}]
    /\ access = [i \in Invs |-> NoAccess]
    /\ escaped = [i \in Invs |-> FALSE]

\* wrapper(*args, **kwargs) is entered: result = [None]; exception = [None].
Call(i) ==
    /\ pc[i] = "idle"
    /\ \E d \in Deadlines, w \in Works :
          /\ deadline' = [deadline EXCEPT ![i] = d]
          /\ work' = [work EXCEPT ![i] = w]
    /\ result' = [result EXCEPT ![CellOf(i)] = None]
    /\ exception' = [exception EXCEPT ![CellOf(i)] = None]
    /\ pc' = [pc EXCEPT ![i] = "start"]
    /\ UNCHANGED <<wpc, waited, logs, outcome, handed, joinObs,
                   aliveSeen, writers,
                   access, escaped>>

\* thread = threading.Thread(target=target); thread.start()
Start(i) ==
    /\ pc[i] = "start"
    /\ wpc' = [wpc EXCEPT ![i] = "running"]
    /\ pc' = [pc EXCEPT ![i] = "join"]
    /\ UNCHANGED <<deadline, work, result, exception, waited, logs,
                   outcome, handed, joinObs, aliveSeen, writers,
                   access, escaped>>

\* Variant: the except branch also assigns result[0].
WorkerFinishBoth(i) ==
    /\ wpc[i] = "running"
    /\ work[i].kind # "hang"
    /\ IF work[i].kind = "return"
         THEN /\ result' = [result EXCEPT ![CellOf(i)] = work[i].val]
              /\ writers' = [writers EXCEPT ![CellOf(i)] = @ \cup {i}]
              /\ access' = [access EXCEPT ![CellOf(i)].resW = @ + 1]
              /\ UNCHANGED <<exception, escaped>>
         ELSE IF Caught(work[i].val)
         THEN /\ exception' = [exception EXCEPT ![CellOf(i)] = work[i].val]
              /\ result' = [result EXCEPT ![CellOf(i)] = None]
              /\ writers' = [writers EXCEPT ![CellOf(i)] = @ \cup {i}]
              /\ access' = [access EXCEPT ![CellOf(i)].excW = @ + 1,
                                          ![CellOf(i)].resW = @ + 1]
              /\ UNCHANGED escaped
         ELSE /\ escaped' = [escaped EXCEPT ![i] = TRUE]
              /\ UNCHANGED <<result, exception, writers, access>>
    /\ wpc' = [wpc EXCEPT ![i] = "exiting"]
    /\ UNCHANGED <<pc, deadline, work, waited, logs, outcome, handed,
                   joinObs, aliveSeen>>

\* target(): func returns or raises.  A return is stored in result[0], an
\* Exception in exception[0]; any other BaseException leaves target uncaught
\* and both cells as they were.
WorkerFinish(i) ==
    /\ wpc[i] = "running"
    /\ work[i].kind # "hang"
    /\ IF work[i].kind = "return"
         THEN /\ result' = [result EXCEPT ![CellOf(i)] = work[i].val]
              /\ writers' = [writers EXCEPT ![CellOf(i)] = @ \cup {i}]
              /\ access' = [access EXCEPT ![CellOf(i)].resW = @ + 1]
              /\ UNCHANGED <<exception, escaped>>
         ELSE IF Caught(work[i].val)
         THEN /\ exception' = [exception EXCEPT ![CellOf(i)] = work[i].val]
              /\ writers' = [writers EXCEPT ![CellOf(i)] = @ \cup {i}]
              /\ access' = [access EXCEPT ![CellOf(i)].excW = @ + 1]
              /\ UNCHANGED <<result, escaped>>
         ELSE /\ escaped' = [escaped EXCEPT ![i] = TRUE]
              /\ UNCHANGED <<result, exception, writers, access>>
    /\ wpc' = [wpc EXCEPT ![i] = "exiting"]
    /\ UNCHANGED <<pc, deadline, work, waited, logs, outcome, handed,
                   joinObs, aliveSeen>>

\* The thread terminates: from here on is_alive() is False and join returns.
WorkerExit(i) ==
    /\ wpc[i] = "exiting"
    /\ wpc' = [wpc EXCEPT ![i] = "dead"]
    /\ UNCHANGED <<pc, deadline, work, result, exception, waited, logs,
                   outcome, handed, joinObs, aliveSeen, writers,
                   access, escaped>>

\* thread.join(timeout) returns because the thread has terminated.
JoinCompleted(i) ==
    /\ pc[i] = "join"
    /\ ~IsAlive(i)
    /\ pc' = [pc EXCEPT ![i] = "check"]
    /\ joinObs' = [joinObs EXCEPT ![i] = "completed"]
    /\ UNCHANGED <<wpc, deadline, work, result, exception, waited, logs,
                   outcome, handed, aliveSeen, writers,
                   access, escaped>>

\* Variant: thread.join() without a timeout returns only on termination.
JoinNoTimeout(i) ==
    /\ pc[i] = "join"
    /\ ~IsAlive(i)
    /\ pc' = [pc EXCEPT ![i] = "check"]
    /\ joinObs' = [joinObs EXCEPT ![i] = "completed"]
    /\ UNCHANGED <<wpc, deadline, work, result, exception, waited, logs,
                   outcome, handed, aliveSeen, writers,
                   access, escaped>>

\* thread.join(timeout) returns because the timeout elapsed first.
JoinExpired(i) ==
    /\ pc[i] = "join"
    /\ IsAlive(i)
    /\ WaitExpired(i)
    /\ pc' = [pc EXCEPT ![i] = "check"]
    /\ joinObs' = [joinObs EXCEPT ![i] =
                     IF wpc[i] = "running" THEN "expired" ELSE "expired_exiting"]
    /\ UNCHANGED <<wpc, deadline, work, result, exception, waited, logs,
                   outcome, handed, aliveSeen, writers,
                   access, escaped>>

\* Variant: the liveness test is negated.
CheckAliveNegated(i) ==
    /\ pc[i] = "check"
    /\ pc' = [pc EXCEPT ![i] = IF IsAlive(i) THEN "checkexc" ELSE "log"]
    /\ aliveSeen' = [aliveSeen EXCEPT ![i] = IF IsAlive(i) THEN "alive" ELSE "dead"]
    /\ UNCHANGED <<wpc, deadline, work, result, exception, waited, logs,
                   outcome, handed, joinObs, writers,
                   access, escaped>>

\* Variant: the timeout is decided by how the wait ended, not by is_alive().
CheckAliveByExpiry(i) ==
    /\ pc[i] = "check"
    /\ pc' = [pc EXCEPT ![i] = IF joinObs[i] = "completed" THEN "checkexc" ELSE "log"]
    /\ aliveSeen' = [aliveSeen EXCEPT ![i] = IF IsAlive(i) THEN "alive" ELSE "dead"]
    /\ UNCHANGED <<wpc, deadline, work, result, exception, waited, logs,
                   outcome, handed, joinObs, writers,
                   access, escaped>>

\* if thread.is_alive():
CheckAlive(i) ==
    /\ pc[i] = "check"
    /\ pc' = [pc EXCEPT ![i] = IF IsAlive(i) THEN "log" ELSE "checkexc"]
    /\ aliveSeen' = [aliveSeen EXCEPT ![i] = IF IsAlive(i) THEN "alive" ELSE "dead"]
    /\ UNCHANGED <<wpc, deadline, work, result, exception, waited, logs,
                   outcome, handed, joinObs, writers,
                   access, escaped>>

\* Variant: the warning is not emitted.
LogTimeoutSilent(i) ==
    /\ pc[i] = "log"
    /\ pc' = [pc EXCEPT ![i] = "retnone"]
    /\ UNCHANGED <<wpc, deadline, work, result, exception, waited, logs,
                   outcome, handed, joinObs, aliveSeen, writers,
                   access, escaped>>

\* logger.warning(f"{func.__name__} timed out after {timeout} seconds; ...")
LogTimeout(i) ==
    /\ pc[i] = "log"
    /\ logs' = [logs EXCEPT ![i] = @ + 1]
    /\ pc' = [pc EXCEPT ![i] = "retnone"]
    /\ UNCHANGED <<wpc, deadline, work, result, exception, waited,
                   outcome, handed, joinObs, aliveSeen, writers,
                   access, escaped>>

\* Variant: the timeout is reported but control falls through to the
\* exception test and the final return.
ReturnTimedOutFallthrough(i) ==
    /\ pc[i] = "retnone"
    /\ outcome' = [outcome EXCEPT ![i] = Append(@, [tag |-> "TimedOut", val |-> None])]
    /\ handed' = [handed EXCEPT ![i] = Append(@, [how |-> "return", val |-> None])]
    /\ pc' = [pc EXCEPT ![i] = "checkexc"]
    /\ UNCHANGED <<wpc, deadline, work, result, exception, waited, logs,
                   joinObs, aliveSeen, writers,
                   access, escaped>>

\* Variant: the timeout path stops the worker before it returns.
ReturnTimedOutKill(i) ==
    /\ pc[i] = "retnone"
    /\ outcome' = [outcome EXCEPT ![i] = Append(@, [tag |-> "TimedOut", val |-> None])]
    /\ handed' = [handed EXCEPT ![i] = Append(@, [how |-> "return", val |-> None])]
    /\ pc' = [pc EXCEPT ![i] = "done"]
    /\ wpc' = [wpc EXCEPT ![i] = "dead"]
    /\ UNCHANGED <<deadline, work, result, exception, waited, logs,
                   joinObs, aliveSeen, writers,
                   access, escaped>>

\* return None   (the timeout path)
ReturnTimedOut(i) ==
    /\ pc[i] = "retnone"
    /\ outcome' = [outcome EXCEPT ![i] = Append(@, [tag |-> "TimedOut", val |-> None])]
    /\ handed' = [handed EXCEPT ![i] = Append(@, [how |-> "return", val |-> None])]
    /\ pc' = [pc EXCEPT ![i] = "done"]
    /\ UNCHANGED <<wpc, deadline, work, result, exception, waited, logs,
                   joinObs, aliveSeen, writers,
                   access, escaped>>

\* Variant: the final return hands back None instead of result[0].
ReturnResultDropped(i) ==
    /\ pc[i] = "checkexc"
    /\ IF Truthy(exception[CellOf(i)])
         THEN /\ outcome' = [outcome EXCEPT ![i] =
                     Append(@, [tag |-> "Failed", val |-> exception[CellOf(i)]])]
              /\ handed' = [handed EXCEPT ![i] =
                     Append(@, [how |-> "raise", val |-> exception[CellOf(i)]])]
         ELSE /\ outcome' = [outcome EXCEPT ![i] =
                     Append(@, [tag |-> "Completed", val |-> None])]
              /\ handed' = [handed EXCEPT ![i] =
                     Append(@, [how |-> "return", val |-> None])]
    /\ access' = [access EXCEPT ![CellOf(i)] = ReadBy(i, @)]
    /\ pc' = [pc EXCEPT ![i] = "done"]
    /\ UNCHANGED <<wpc, deadline, work, result, exception, waited, logs,
                   joinObs, aliveSeen, writers, escaped>>

\* if exception[0]: raise exception[0]
\* return result[0]
ReturnResult(i) ==
    /\ pc[i] = "checkexc"
    /\ IF Truthy(exception[CellOf(i)])
         THEN /\ outcome' = [outcome EXCEPT ![i] =
                     Append(@, [tag |-> "Failed", val |-> exception[CellOf(i)]])]
              /\ handed' = [handed EXCEPT ![i] =
                     Append(@, [how |-> "raise", val |-> exception[CellOf(i)]])]
         ELSE /\ outcome' = [outcome EXCEPT ![i] =
                     Append(@, [tag |-> "Completed", val |-> result[CellOf(i)]])]
              /\ handed' = [handed EXCEPT ![i] =
                     Append(@, [how |-> "return", val |-> result[CellOf(i)]])]
    /\ access' = [access EXCEPT ![CellOf(i)] = ReadBy(i, @)]
    /\ pc' = [pc EXCEPT ![i] = "done"]
    /\ UNCHANGED <<wpc, deadline, work, result, exception, waited, logs,
                   joinObs, aliveSeen, writers, escaped>>

\* One tick of wall-clock time.  A timed wait returns when its timeout
\* elapses, so time does not advance past the expiry of a pending join.
Tick ==
    /\ \E i \in Invs : pc[i] = "join" /\ IsAlive(i)
    /\ \A i \in Invs : (pc[i] = "join" /\ IsAlive(i)) => ~WaitExpired(i)
    /\ waited' = [i \in Invs |->
                    IF pc[i] = "join" /\ IsAlive(i) THEN waited[i] + 1 ELSE waited[i]]
    /\ UNCHANGED <<pc, wpc, deadline, work, result, exception, logs, outcome,
                   handed, joinObs, aliveSeen, writers,
                   access, escaped>>

Caller(i) == \/ Call(i) \/ Start(i) \/ JoinCompleted(i) \/ JoinExpired(i)
             \/ CheckAlive(i) \/ LogTimeout(i) \/ ReturnTimedOut(i)
             \/ ReturnResult(i)

Worker(i) == WorkerFinish(i) \/ WorkerExit(i)

Next == \/ \E i \in Invs : Caller(i)
        \/ \E i \in Invs : Worker(i)
        \/ Tick

Spec == Init /\ [][Next]_vars

\* One invocation on its own, with the scheduling the runtime provides: the
\* caller thread and the worker thread each keep being scheduled, and time
\* passes.
SoloNext == Caller(1) \/ Worker(1) \/ Tick

FairSpec == Init /\ [][SoloNext]_vars
                 /\ WF_vars(Tick) /\ WF_vars(Caller(1)) /\ WF_vars(Worker(1))

\* ------------------------------------------------------------ properties
Done(i) == pc[i] = "done"

TimedOut == [tag |-> "TimedOut", val |-> None]
Completed(v) == [tag |-> "Completed", val |-> v]
Failed(e) == [tag |-> "Failed", val |-> e]

\* C1: every invocation produces exactly one Outcome and returns exactly
\* once: at no time has an invocation produced two outcomes, it has produced
\* one exactly when it has returned, and that one is Completed, Failed or
\* TimedOut.
C1_ExactlyOneOutcome ==
    \A i \in Invs :
       /\ Len(outcome[i]) <= 1
       /\ Len(handed[i]) = Len(outcome[i])
       /\ Done(i) <=> Len(outcome[i]) = 1
       /\ \A k \in 1..Len(outcome[i]) :
             outcome[i][k].tag \in {"Completed", "Failed", "TimedOut"}

C1_Witness ==
    /\ Done(1) /\ Done(2)
    /\ outcome[1] = <<TimedOut>>
    /\ outcome[2][1].tag = "Failed"

C3_FailedInTime ==
    \A i \in Invs :
       (Done(i) /\ deadline[i] > 0 /\ work[i].kind = "raise"
                /\ joinObs[i] = "completed")
         => /\ outcome[i] = <<Failed(work[i].val)>>
            /\ handed[i] = <<[how |-> "raise", val |-> work[i].val]>>

\* C4 (as stated): with a deadline d > 0, when the work has not finished at
\* the moment the deadline elapses, the outcome is TimedOut.
C4_TimedOutAtExpiry ==
    \A i \in Invs :
       (Done(i) /\ deadline[i] > 0 /\ joinObs[i] = "expired")
         => outcome[i] = <<TimedOut>>

\* C4 (amended): with a deadline d > 0, when the worker is still alive at the
\* wrapper's is_alive() test after the wait, and in particular whenever the
\* work never finishes, the outcome is TimedOut and the wrapper returns None.
C4_TimedOutWhenAlive ==
    \A i \in Invs :
       (Done(i) /\ deadline[i] > 0
                /\ (aliveSeen[i] = "alive" \/ work[i].kind = "hang"))
         => /\ outcome[i] = <<TimedOut>>
            /\ handed[i] = <<[how |-> "return", val |-> None]>>
            /\ joinObs[i] \in {"expired", "expired_exiting"}

C4_Witness ==
    /\ Done(1) /\ deadline[1] > 0 /\ work[1].kind = "return"
    /\ waited[1] = deadline[1] /\ aliveSeen[1] = "alive"
    /\ outcome[1] = <<TimedOut>>

\* C5: two invocations that ended in different outcomes hand different things
\* back to their callers; in particular TimedOut and Completed(None) differ.
C5_OutcomesDistinguishable ==
    \A i \in Invs : \A j \in Invs :
       (Done(i) /\ Done(j) /\ outcome[i][1].tag # outcome[j][1].tag)
         => handed[i] # handed[j]

C7_OrphanRunsOn ==
    /\ [][\A i \in Invs :
             (Done(i) /\ outcome[i] = <<TimedOut>>)
               => /\ outcome'[i] = outcome[i]
                  /\ handed'[i] = handed[i]
                  /\ logs'[i] = logs[i]
                  /\ pc'[i] = pc[i]
                  /\ (wpc[i] = "running" => wpc'[i] \in {"running", "exiting"})]_vars
    /\ [](\A i \in Invs :
             (Done(i) /\ outcome[i] = <<TimedOut>> /\ wpc[i] = "dead")
               => /\ work[i].kind # "hang"
                  /\ work[i].kind = "return" => result[i] = work[i].val
                  /\ (work[i].kind = "raise" /\ Caught(work[i].val))
                        => exception[i] = work[i].val)
    /\ \A i \in Invs :
          (Done(i) /\ outcome[i] = <<TimedOut>> /\ work[i].kind # "hang")
             ~> (wpc[i] = "dead")

C7_Witness ==
    /\ Done(1) /\ outcome[1] = <<TimedOut>> /\ wpc[1] = "dead"
    /\ work[1].kind = "return" /\ result[1].id = 42

\* C8: an invocation emits exactly one log event if its outcome is TimedOut
\* and none if it is Completed or Failed, and the event is there by the time
\* the wrapper is about to return.
C8_OneLogOnTimeoutOnly ==
    \A i \in Invs :
       /\ logs[i] <= 1
       /\ Done(i) => (logs[i] = IF outcome[i] = <<TimedOut>> THEN 1 ELSE 0)
       /\ pc[i] = "retnone" => logs[i] = 1
       /\ pc[i] = "checkexc" => logs[i] = 0

C8_Witness ==
    /\ Done(1) /\ outcome[1] = <<TimedOut>> /\ logs[1] = 1
    /\ Done(2) /\ outcome[2][1].tag = "Completed" /\ logs[2] = 0

\* What an invocation can end in, given its own work alone.
OwnOutcomes(w) ==
    {TimedOut} \cup
    (IF w.kind = "return" THEN {Completed(w.val)}
     ELSE IF w.kind = "raise"
       THEN (IF Caught(w.val) /\ Truthy(w.val)
               THEN {Failed(w.val)} ELSE {Completed(None)})
     ELSE {})

\* C9: invocations are independent: the cells of an invocation are written by
\* that invocation's worker only and hold only what its own work produced,
\* and the outcome of an invocation is one its own work can produce.
C9_Independent ==
    \A i \in Invs :
       /\ writers[i] \subseteq {i}
       /\ result[i] \in {None, work[i].val}
       /\ exception[i] \in {None, work[i].val}
       /\ Done(i) => outcome[i][1] \in OwnOutcomes(work[i])

C9_Witness ==
    /\ Done(1) /\ outcome[1] = <<TimedOut>> /\ wpc[1] = "running"
    /\ work[1].kind = "return" /\ work[1].val.id = 42
    /\ Done(2) /\ work[2].kind = "raise" /\ outcome[2] = <<Failed(work[2].val)>>
    /\ writers[2] = {2}

\* C10: every invocation with a deadline d > 0 eventually returns, also when
\* the work never terminates.
C10_EventuallyReturns ==
    \A i \in Invs : (pc[i] # "idle" /\ deadline[i] > 0) ~> Done(i)

C10_Witness ==
    /\ Done(1) /\ deadline[1] > 0 /\ work[1].kind = "hang"
    /\ waited[1] = deadline[1]

\* C11: whenever the work raised and the wrapper found the worker terminated,
\* the caller gets Failed carrying that failure (it is not dropped), and the
\* executor has logged nothing.
C11_FailureSurfaced ==
    \A i \in Invs :
       (Done(i) /\ work[i].kind = "raise" /\ aliveSeen[i] = "dead")
         => /\ outcome[i] = <<Failed(work[i].val)>>
            /\ logs[i] = 0

\* C12 (as stated): when the caller's wait ended because the deadline elapsed
\* with the worker not yet terminated, the outcome is TimedOut, whatever the
\* worker does before the liveness test.
C12_ExpiryMeansTimedOut ==
    \A i \in Invs :
       (Done(i) /\ joinObs[i] \in {"expired", "expired_exiting"})
         => outcome[i] = <<TimedOut>>

\* C12 (amended): when the caller's wait ended because the deadline elapsed,
\* the outcome is TimedOut exactly when the worker is still alive at the
\* is_alive() test that follows; a worker that terminates between the expiry
\* and the test ends the call with what its own work produced.
C12_ExpiryDecidedByLiveness ==
    \A i \in Invs :
       (Done(i) /\ joinObs[i] \in {"expired", "expired_exiting"})
         => /\ (outcome[i] = <<TimedOut>>) <=> (aliveSeen[i] = "alive")
            /\ aliveSeen[i] = "dead" =>
                  /\ outcome[i][1] \in OwnOutcomes(work[i]) \ {TimedOut}
                  /\ logs[i] = 0

C12_Witness ==
    /\ Done(1) /\ joinObs[1] = "expired" /\ aliveSeen[1] = "dead"
    /\ deadline[1] > 0 /\ waited[1] = deadline[1]
    /\ outcome[1][1].tag = "Completed" /\ outcome[1][1].val.id = 42

\* C13: the caller evaluates a result cell only when the worker has
\* terminated, so that no cell is assigned after it was evaluated, and on the
\* timeout path it evaluates neither cell.
C13_ReadsAfterTermination ==
    \A i \in Invs :
       /\ ~access[i].early
       /\ pc[i] = "checkexc" => wpc[i] = "dead"
       /\ (access[i].resR + access[i].excR > 0) => (Done(i) /\ wpc[i] = "dead")
       /\ (Done(i) /\ outcome[i] = <<TimedOut>>)
             => (access[i].resR = 0 /\ access[i].excR = 0)

C13_Witness ==
    /\ Done(1) /\ outcome[1][1].tag = "Completed" /\ access[1].resR = 1
    /\ Done(2) /\ outcome[2] = <<TimedOut>> /\ wpc[2] = "dead"
    /\ access[2].resW = 1 /\ access[2].resR = 0

\* C14 (as stated): in an invocation that has returned, the success cell and
\* the error cell have each been written exactly once, by the worker, and each
\* read exactly once, by the caller, after the worker terminated.
C14_EachCellOnceWrittenOnceRead ==
    \A i \in Invs :
       Done(i) => /\ access[i].resW = 1 /\ access[i].excW = 1
                  /\ access[i].resR = 1 /\ access[i].excR = 1
                  /\ writers[i] \subseteq {i}
                  /\ ~access[i].early

\* C14 (amended): in one invocation each cell is written at most once, by the
\* worker only, and at most one of the two is written; the cells are read by
\* the caller only after the worker terminated: on Completed the error cell
\* once and the success cell once, on Failed the error cell twice and the
\* success cell not at all, on TimedOut neither, and not before the return.
C14_CellAccesses ==
    \A i \in Invs :
       /\ access[i].resW + access[i].excW <= 1
       /\ writers[i] \subseteq {i}
       /\ ~access[i].early
       /\ ~Done(i) => (access[i].resR = 0 /\ access[i].excR = 0)
       /\ Done(i) =>
             /\ outcome[i][1].tag = "Completed"
                   => (access[i].excR = 1 /\ access[i].resR = 1)
             /\ outcome[i][1].tag = "Failed"
                   => (access[i].excR = 2 /\ access[i].resR = 0)
             /\ outcome[i][1].tag = "TimedOut"
                   => (access[i].excR = 0 /\ access[i].resR = 0)

C14_Witness ==
    /\ Done(1) /\ outcome[1][1].tag = "Failed"
    /\ access[1] = [resW |-> 0, excW |-> 1, resR |-> 0, excR |-> 2, early |-> FALSE]
    /\ Done(2) /\ outcome[2][1].tag = "Completed"
    /\ access[2] = [resW |-> 1, excW |-> 0, resR |-> 1, excR |-> 1, early |-> FALSE]

\* C15: whatever failure the work raises, the worker captures it: the failure
\* does not leave target uncaught and it is in the error cell when the worker
\* winds up.
C15_WorkerCapturesEveryFailure ==
    \A i \in Invs :
       (work[i].kind = "raise" /\ wpc[i] \in {"exiting", "dead"})
         => /\ ~escaped[i]
            /\ exception[i] = work[i].val

\* C16: at every moment at most one of the two cells of an invocation has
\* been written: the success cell only after the work returned, the error
\* cell only after the work raised; the cells are empty when the invocation
\* allocates them and stay so until its worker has been started and has
\* finished the work.
C16_AtMostOneCellWritten ==
    \A i \in Invs :
       /\ access[i].resW + access[i].excW <= 1
       /\ access[i].resW > 0 =>
             (work[i].kind = "return" /\ result[i] = work[i].val
                                      /\ exception[i] = None)
       /\ access[i].excW > 0 =>
             (work[i].kind = "raise" /\ exception[i] = work[i].val
                                     /\ result[i] = None)
       /\ wpc[i] \in {"unstarted", "running"} =>
             /\ access[i].resW = 0 /\ access[i].excW = 0
             /\ result[i] = None /\ exception[i] = None

C16_Witness ==
    /\ wpc[1] = "dead" /\ work[1].kind = "raise"
    /\ access[1].excW = 1 /\ access[1].resW = 0
    /\ wpc[2] = "exiting" /\ work[2].kind = "return" /\ work[2].val.id = 42
    /\ access[2].resW = 1 /\ access[2].excW = 0
====
